---------------------------- MODULE Spec2Model ----------------------------
(***************************************************************************)
(* A model of Second_Solution.py: the QueryExecutor class (one psycopg2    *)
(* connection, a cursor per call, console output) and the script's main    *)
(* block, which runs nine fixed queries and closes the connection in a     *)
(* finally clause.                                                         *)
(*                                                                         *)
(* One thread of control runs the whole program; pc is its position.  A    *)
(* method is modelled statement by statement, so that the states between   *)
(* opening a cursor and leaving its with block are visible.  The database  *)
(* is the environment: whether a connect, a statement or a fetch succeeds  *)
(* is chosen when the program reaches it.                                  *)
(*                                                                         *)
(* Three specifications share the variables:                               *)
(*   Spec     the script run as a program (the __main__ block);            *)
(*   SpecAPI  a client of the class that constructs an executor and calls  *)
(*            execute, execute_query and close in any order;               *)
(*   SpecMsg  _print_execution_message applied to one query text.          *)
(***************************************************************************)
EXTENDS Integers, Sequences, FiniteSets, TLC

VARIABLES
  pc,            \* position of the thread of control
  connection,    \* self.connection: "None", or the connection object, "open" or "closed"
  qe,            \* whether the caller's variable qe holds the constructed executor
  cursors,       \* number of cursors that are open
  cursorResult,  \* what the open cursor holds after cursor.execute: description and rows
  out,           \* standard output, one entry per printed line
  err,           \* standard error, one entry per traceback
  exc,           \* the exception that is propagating: "none", "SystemExit", "Exception"
  excInfo,       \* the class of the exception raised last and its str()
  exitCode,      \* "running", or the exit status of the process
  sent,          \* the statements handed to cursor.execute, in order
  closeCalls,    \* number of calls of connection.close()
  qi,            \* main block: number of execute_query calls started
  cleanup,       \* main block: whether the finally clause has been entered
  op,            \* the method of the executor called last (running or ended)
  mark,          \* history: len(out) when that call started
  calls,         \* client: number of method calls started
  query,         \* the argument query of the running call
  print_results, \* the argument print_results of the running call
  schema_name,   \* self._schema_name
  dbresult       \* the result set the database returns for a statement that succeeds

vars ==
  << pc, connection, qe, cursors, cursorResult, out, err, exc, excInfo, exitCode, sent,
     closeCalls, qi, cleanup, op, mark, calls, query, print_results, schema_name,
     dbresult >>

-----------------------------------------------------------------------------
(* Bounds of the model. *)

\* Longest result set the database returns.
MaxRows ==
  2

\* Most method calls a client of the class makes after construction.
MaxCalls ==
  3

\* Longest varied prefix of a query text of SpecMsg.
MaxHead ==
  1

\* Longest varied suffix of a query text of SpecMsg.
MaxTail ==
  3

-----------------------------------------------------------------------------
(* Text.  A text is a sequence of one-character strings. *)

\* The cut of _print_execution_message: len(query) > 55, query[:55].
MaxMsgLen ==
  55

\* The ASCII control characters 11 and 28 to 31, written as they are: a TLA+
\* string has no escape for them.
VerticalTab ==
  ""

FileSeparator ==
  ""

GroupSeparator ==
  ""

RecordSeparator ==
  ""

UnitSeparator ==
  ""

\* What \s (of a str pattern) and str.strip() take as whitespace, among the
\* ASCII characters: space, \t, \n, \v, \f, \r and the four separators.  The
\* characters beyond ASCII that Python also takes as whitespace (\x85, \xa0,
\* U+1680, U+2000 to U+200A, ...) cannot be written in a TLA+ string; no text
\* of the model contains one.
Whitespace ==
  {" ", "\t", "\n", VerticalTab, "\f", "\r",
   FileSeparator, GroupSeparator, RecordSeparator, UnitSeparator}

Ellipsis ==
  <<".", ".", ".">>

\* query[:n]
Take(s, n) ==
  SubSeq(s, 1, IF Len(s) < n THEN Len(s) ELSE n)

\* msg.replace('\n', ' ')
ReplaceNewline(s) ==
  [i \in 1..Len(s) |-> IF s[i] = "\n" THEN " " ELSE s[i]]

\* re.sub(r'\s+', ' ', s): every maximal run of whitespace becomes one space.
ReSubWhitespace(s) ==
  LET F[i \in 0..Len(s)] ==
        IF i = 0 THEN <<>>
        ELSE IF s[i] \in Whitespace
             THEN IF i > 1 /\ s[i-1] \in Whitespace THEN F[i-1] ELSE Append(F[i-1], " ")
             ELSE Append(F[i-1], s[i])
  IN  F[Len(s)]

\* s.strip(): leading and trailing whitespace removed.
Strip(s) ==
  LET keep == {i \in 1..Len(s) : s[i] \notin Whitespace}
  IN  IF keep = {} THEN <<>>
      ELSE SubSeq(s, CHOOSE i \in keep : \A j \in keep : i <= j,
                     CHOOSE i \in keep : \A j \in keep : j <= i)

\* A message that is stripped before the ellipsis is appended.
ExecutionMessageStrippedFirst(q) ==
  LET msg == Strip(ReSubWhitespace(ReplaceNewline(Take(q, MaxMsgLen))))
  IN  IF Len(q) > MaxMsgLen THEN msg \o Ellipsis ELSE msg

\* The text _print_execution_message puts between the quotes.
ExecutionMessage(q) ==
  LET msg == IF Len(q) > MaxMsgLen THEN Take(q, MaxMsgLen) \o Ellipsis ELSE q
  IN  Strip(ReSubWhitespace(ReplaceNewline(msg)))

-----------------------------------------------------------------------------
(* Console lines.  A line is a record: its kind, its text as a sequence of   *)
(* strings, and a number (the row count of a "count" line, else 0).          *)

Line(kind, text, n) ==
  [kind |-> kind, text |-> text, n |-> n]

\* print("<s>") of a fixed text.
Lit(s) ==
  Line("lit", <<s>>, 0)

\* The empty line a "\n" inside a printed text produces.
Blank ==
  Line("blank", <<>>, 0)

ConnectedLine ==
  Lit("Successfully connected to Postgres.")

ExitingLine ==
  Lit("Exiting due to SQL error.")

ClosedLine ==
  Lit("Database connection closed.")

ResultSetLine ==
  Lit("Result set:")

NoResultsLine ==
  Lit("(No results to display)")

\* print(f"An unexpected error occurred: {e}")
UnexpectedLine(message) ==
  Line("unexpected", <<"An unexpected error occurred: ", message>>, 0)

\* print(f"Using schema '{self._schema_name}'.\n") : this line and an empty one.
SchemaLine(name) ==
  Line("schema", <<"Using schema '", name, "'.">>, 0)

\* print(f'Executed the query "{msg}"')
ExecLine(q) ==
  Line("exec", ExecutionMessage(q), 0)

\* " | ".join(items)
JoinBar(items) ==
  LET F[i \in 0..Len(items)] ==
        IF i = 0 THEN <<>>
        ELSE IF i = 1 THEN <<items[1]>>
        ELSE F[i-1] \o <<" | ", items[i]>>
  IN  F[Len(items)]

JoinedLine(items) ==
  Line("joined", JoinBar(items), 0)

\* print(f"Number of rows: {row_count}")
CountLine(n) ==
  Line("count", <<"Number of rows: ">>, n)

\* Values of a row: an int, a str or None.  str(value) is the digits of an
\* int, the text of a str and "None" for None.
PyInt(digits) ==
  [ty |-> "int", repr |-> digits]

PyStr(text) ==
  [ty |-> "str", repr |-> text]

PyNone ==
  [ty |-> "NoneType", repr |-> ""]

str(v) ==
  IF v.ty = "NoneType" THEN "None" ELSE v.repr

\* map(str, row)
MapStr(row) ==
  [i \in 1..Len(row) |-> str(row[i])]

-----------------------------------------------------------------------------
(* The database, as far as the program sees it. *)

\* All sequences over S of length at most n.
SeqUpTo(S, n) ==
  UNION {[1..k -> S] : k \in 0..n}

\* cursor.description is None: the statement has no result shape.
NoDescription ==
  [described |-> FALSE, columns |-> <<>>, rows |-> <<>>]

\* The columns and the rows of the result sets of the model.
Columns ==
  <<"A", "B">>

Rows ==
  {<<PyInt("1"), PyStr("x")>>, <<PyInt("2"), PyNone>>}

\* What a cursor can hold after a statement that succeeded.
ResultSets ==
  {NoDescription} \cup
  {[described |-> TRUE, columns |-> Columns, rows |-> rows] : rows \in SeqUpTo(Rows, MaxRows)}

\* Schema names an executor is constructed with.
SchemaNames ==
  {"wine", "inventory"}

\* psycopg2.extensions.quote_ident(name, connection), for a name without quotes.
quote_ident(name) ==
  <<"\"", name, "\"">>

\* The statement _initialize sends.
SetSearchPath(name) ==
  <<"SET search_path TO ">> \o quote_ident(name) \o <<", public;">>

-----------------------------------------------------------------------------
(* The nine statements of the main block, character by character. *)

\* The statement of the execute_query call at lines 198-204 (191 characters).
Q7_9E ==
  <<
    "\n",
    " ", " ", " ", " ", " ", " ", " ", " ", " ", " ", " ", " ", "S", "E", "L", "E", "C", "T", " ", "s", ".", "S", "U", "P", "N", "A", "M", "E", ",", " ", "s", ".", "S", "U", "P", "N", "R", "\n",
    " ", " ", " ", " ", " ", " ", " ", " ", " ", " ", " ", " ", "F", "R", "O", "M", " ", "s", "u", "p", "p", "l", "i", "e", "r", " ", "s", "\n",
    " ", " ", " ", " ", " ", " ", " ", " ", " ", " ", " ", " ", "W", "H", "E", "R", "E", " ", "N", "O", "T", " ", "E", "X", "I", "S", "T", "S", " ", "(", "\n",
    " ", " ", " ", " ", " ", " ", " ", " ", " ", " ", " ", " ", " ", " ", " ", " ", "S", "E", "L", "E", "C", "T", " ", "1", " ", "F", "R", "O", "M", " ", "p", "u", "r", "c", "h", "a", "s", "e", "_", "o", "r", "d", "e", "r", " ", "p", " ", "W", "H", "E", "R", "E", " ", "s", ".", "S", "U", "P", "N", "R", " ", "=", " ", "p", ".", "S", "U", "P", "N", "R", "\n",
    " ", " ", " ", " ", " ", " ", " ", " ", " ", " ", " ", " ", ")", "\n",
    " ", " ", " ", " ", " ", " ", " ", " " >>

\* The statement of the execute_query call at lines 209-213 (136 characters).
Q7_11E ==
  <<
    "\n",
    " ", " ", " ", " ", " ", " ", " ", " ", " ", " ", " ", " ", "S", "E", "L", "E", "C", "T", " ", "S", "U", "M", "(", "a", "v", "a", "i", "l", "a", "b", "l", "e", "_", "q", "u", "a", "n", "t", "i", "t", "y", ")", " ", "A", "S", " ", "T", "O", "T", "A", "L", "_", "Q", "U", "A", "N", "T", "I", "T", "Y", "\n",
    " ", " ", " ", " ", " ", " ", " ", " ", " ", " ", " ", " ", "F", "R", "O", "M", " ", "p", "r", "o", "d", "u", "c", "t", "\n",
    " ", " ", " ", " ", " ", " ", " ", " ", " ", " ", " ", " ", "W", "H", "E", "R", "E", " ", "p", "r", "o", "d", "t", "y", "p", "e", " ", "=", " ", "'", "s", "p", "a", "r", "k", "l", "i", "n", "g", "'", "\n",
    " ", " ", " ", " ", " ", " ", " ", " " >>

\* The statement of the execute_query call at lines 218-224 (257 characters).
Q7_12E ==
  <<
    "\n",
    " ", " ", " ", " ", " ", " ", " ", " ", " ", " ", " ", " ", "S", "E", "L", "E", "C", "T", " ", "s", ".", "s", "u", "p", "n", "r", ",", " ", "s", ".", "s", "u", "p", "n", "a", "m", "e", ",", " ", "C", "O", "U", "N", "T", "(", "p", "o", ".", "p", "o", "n", "r", ")", " ", "A", "S", " ", "t", "o", "t", "a", "l", "_", "n", "u", "m", "_", "o", "f", "_", "o", "u", "t", "s", "t", "a", "n", "d", "i", "n", "g", "_", "o", "r", "d", "e", "r", "s", "\n",
    " ", " ", " ", " ", " ", " ", " ", " ", " ", " ", " ", " ", "F", "R", "O", "M", " ", "s", "u", "p", "p", "l", "i", "e", "r", " ", "s", "\n",
    " ", " ", " ", " ", " ", " ", " ", " ", " ", " ", " ", " ", "L", "E", "F", "T", " ", "J", "O", "I", "N", " ", "p", "u", "r", "c", "h", "a", "s", "e", "_", "o", "r", "d", "e", "r", " ", "p", "o", " ", "O", "N", " ", "s", ".", "s", "u", "p", "n", "r", " ", "=", " ", "p", "o", ".", "s", "u", "p", "n", "r", "\n",
    " ", " ", " ", " ", " ", " ", " ", " ", " ", " ", " ", " ", "G", "R", "O", "U", "P", " ", "B", "Y", " ", "s", ".", "s", "u", "p", "n", "r", ",", " ", "s", ".", "s", "u", "p", "n", "a", "m", "e", "\n",
    " ", " ", " ", " ", " ", " ", " ", " ", " ", " ", " ", " ", "O", "R", "D", "E", "R", " ", "B", "Y", " ", "s", ".", "s", "u", "p", "n", "r", "\n",
    " ", " ", " ", " ", " ", " ", " ", " " >>

\* The statement of the execute_query call at lines 229-234 (167 characters).
Q7_13E ==
  <<
    "\n",
    " ", " ", " ", " ", " ", " ", " ", " ", " ", " ", " ", " ", "S", "E", "L", "E", "C", "T", " ", "s", ".", "s", "u", "p", "n", "r", ",", " ", "C", "O", "U", "N", "T", "(", "s", ".", "p", "r", "o", "d", "n", "r", ")", " ", "A", "S", " ", "n", "u", "m", "_", "o", "f", "_", "p", "r", "o", "d", "u", "c", "t", "\n",
    " ", " ", " ", " ", " ", " ", " ", " ", " ", " ", " ", " ", "F", "R", "O", "M", " ", "s", "u", "p", "p", "l", "i", "e", "s", " ", "s", "\n",
    " ", " ", " ", " ", " ", " ", " ", " ", " ", " ", " ", " ", "G", "R", "O", "U", "P", " ", "B", "Y", " ", "s", ".", "s", "u", "p", "n", "r", "\n",
    " ", " ", " ", " ", " ", " ", " ", " ", " ", " ", " ", " ", "H", "A", "V", "I", "N", "G", " ", "C", "O", "U", "N", "T", "(", "s", ".", "p", "r", "o", "d", "n", "r", ")", " ", ">", " ", "5", "\n",
    " ", " ", " ", " ", " ", " ", " ", " " >>

\* The statement of the execute_query call at lines 239-245 (242 characters).
Q7_14E ==
  <<
    "\n",
    " ", " ", " ", " ", " ", " ", " ", " ", " ", " ", " ", " ", "S", "E", "L", "E", "C", "T", " ", "s", ".", "s", "u", "p", "n", "r", ",", " ", "s", ".", "s", "u", "p", "n", "a", "m", "e", ",", " ", "A", "V", "G", "(", "s", "p", ".", "d", "e", "l", "i", "v", "_", "p", "e", "r", "i", "o", "d", ")", " ", "A", "S", " ", "a", "v", "e", "r", "a", "g", "e", "_", "d", "e", "l", "i", "v", "e", "r", "y", "_", "t", "i", "m", "e", "\n",
    " ", " ", " ", " ", " ", " ", " ", " ", " ", " ", " ", " ", "F", "R", "O", "M", " ", "s", "u", "p", "p", "l", "i", "e", "r", " ", "s", "\n",
    " ", " ", " ", " ", " ", " ", " ", " ", " ", " ", " ", " ", "J", "O", "I", "N", " ", "s", "u", "p", "p", "l", "i", "e", "s", " ", "s", "p", " ", "O", "N", " ", "s", ".", "s", "u", "p", "n", "r", " ", "=", " ", "s", "p", ".", "s", "u", "p", "n", "r", "\n",
    " ", " ", " ", " ", " ", " ", " ", " ", " ", " ", " ", " ", "G", "R", "O", "U", "P", " ", "B", "Y", " ", "s", ".", "s", "u", "p", "n", "r", ",", " ", "s", ".", "s", "u", "p", "n", "a", "m", "e", "\n",
    " ", " ", " ", " ", " ", " ", " ", " ", " ", " ", " ", " ", "O", "R", "D", "E", "R", " ", "B", "Y", " ", "s", ".", "s", "u", "p", "n", "r", "\n",
    " ", " ", " ", " ", " ", " ", " ", " " >>

\* The statement of the execute_query call at lines 250-258 (239 characters).
Q7_15E ==
  <<
    "\n",
    " ", " ", " ", " ", " ", " ", " ", " ", " ", " ", " ", " ", "S", "E", "L", "E", "C", "T", " ", "D", "I", "S", "T", "I", "N", "C", "T", " ", "p", "o", "n", "r", "\n",
    " ", " ", " ", " ", " ", " ", " ", " ", " ", " ", " ", " ", "F", "R", "O", "M", " ", "p", "o", "_", "l", "i", "n", "e", "\n",
    " ", " ", " ", " ", " ", " ", " ", " ", " ", " ", " ", " ", "W", "H", "E", "R", "E", " ", "p", "r", "o", "d", "n", "r", " ", "I", "N", " ", "(", "\n",
    " ", " ", " ", " ", " ", " ", " ", " ", " ", " ", " ", " ", " ", " ", " ", " ", "S", "E", "L", "E", "C", "T", " ", "p", ".", "p", "r", "o", "d", "n", "r", "\n",
    " ", " ", " ", " ", " ", " ", " ", " ", " ", " ", " ", " ", " ", " ", " ", " ", "F", "R", "O", "M", " ", "p", "r", "o", "d", "u", "c", "t", " ", "p", "\n",
    " ", " ", " ", " ", " ", " ", " ", " ", " ", " ", " ", " ", " ", " ", " ", " ", "W", "H", "E", "R", "E", " ", "p", "r", "o", "d", "t", "y", "p", "e", " ", "=", " ", "'", "s", "p", "a", "r", "k", "l", "i", "n", "g", "'", " ", "O", "R", " ", "p", "r", "o", "d", "t", "y", "p", "e", " ", "=", " ", "'", "r", "e", "d", "'", "\n",
    " ", " ", " ", " ", " ", " ", " ", " ", " ", " ", " ", " ", ")", "\n",
    " ", " ", " ", " ", " ", " ", " ", " " >>

\* The statement of the execute_query call at lines 263-272 (257 characters).
Q7_16E ==
  <<
    "\n",
    " ", " ", " ", " ", " ", " ", " ", " ", " ", " ", " ", " ", "S", "E", "L", "E", "C", "T", " ", "p", "1", ".", "p", "r", "o", "d", "n", "r", "\n",
    " ", " ", " ", " ", " ", " ", " ", " ", " ", " ", " ", " ", "F", "R", "O", "M", " ", "p", "r", "o", "d", "u", "c", "t", " ", "p", "1", "\n",
    " ", " ", " ", " ", " ", " ", " ", " ", " ", " ", " ", " ", "W", "H", "E", "R", "E", " ", "3", " ", ">", "=", " ", "(", "\n",
    " ", " ", " ", " ", " ", " ", " ", " ", " ", " ", " ", " ", " ", " ", " ", " ", "S", "E", "L", "E", "C", "T", " ", "C", "O", "U", "N", "T", "(", "p", "2", ".", "p", "r", "o", "d", "n", "r", ")", "\n",
    " ", " ", " ", " ", " ", " ", " ", " ", " ", " ", " ", " ", " ", " ", " ", " ", "F", "R", "O", "M", " ", "p", "r", "o", "d", "u", "c", "t", " ", "p", "2", "\n",
    " ", " ", " ", " ", " ", " ", " ", " ", " ", " ", " ", " ", " ", " ", " ", " ", "W", "H", "E", "R", "E", " ", "p", "2", ".", "p", "r", "o", "d", "n", "r", " ", "<", "=", " ", "p", "1", ".", "p", "r", "o", "d", "n", "r", "\n",
    " ", " ", " ", " ", " ", " ", " ", " ", " ", " ", " ", " ", ")", "\n",
    " ", " ", " ", " ", " ", " ", " ", " ", " ", " ", " ", " ", "O", "R", "D", "E", "R", " ", "B", "Y", " ", "p", "1", ".", "p", "r", "o", "d", "n", "r", " ", "A", "S", "C", "\n",
    " ", " ", " ", " ", " ", " ", " ", " " >>

\* The statement of the execute_query call at lines 277-285 (266 characters).
Q7_17E ==
  <<
    "\n",
    " ", " ", " ", " ", " ", " ", " ", " ", " ", " ", " ", " ", "S", "E", "L", "E", "C", "T", " ", "p", "r", "o", "d", "n", "a", "m", "e", ",", " ", "a", "v", "a", "i", "l", "a", "b", "l", "e", "_", "q", "u", "a", "n", "t", "i", "t", "y", "\n",
    " ", " ", " ", " ", " ", " ", " ", " ", " ", " ", " ", " ", "F", "R", "O", "M", " ", "p", "r", "o", "d", "u", "c", "t", "\n",
    " ", " ", " ", " ", " ", " ", " ", " ", " ", " ", " ", " ", "W", "H", "E", "R", "E", " ", "a", "v", "a", "i", "l", "a", "b", "l", "e", "_", "q", "u", "a", "n", "t", "i", "t", "y", " ", ">", "=", " ", "A", "L", "L", " ", "(", "\n",
    " ", " ", " ", " ", " ", " ", " ", " ", " ", " ", " ", " ", " ", " ", " ", " ", "S", "E", "L", "E", "C", "T", " ", "a", "v", "a", "i", "l", "a", "b", "l", "e", "_", "q", "u", "a", "n", "t", "i", "t", "y", "\n",
    " ", " ", " ", " ", " ", " ", " ", " ", " ", " ", " ", " ", " ", " ", " ", " ", "F", "R", "O", "M", " ", "p", "r", "o", "d", "u", "c", "t", "\n",
    " ", " ", " ", " ", " ", " ", " ", " ", " ", " ", " ", " ", " ", " ", " ", " ", "W", "H", "E", "R", "E", " ", "a", "v", "a", "i", "l", "a", "b", "l", "e", "_", "q", "u", "a", "n", "t", "i", "t", "y", " ", "I", "S", " ", "N", "O", "T", " ", "N", "U", "L", "L", "\n",
    " ", " ", " ", " ", " ", " ", " ", " ", " ", " ", " ", " ", ")", "\n",
    " ", " ", " ", " ", " ", " ", " ", " " >>

\* The statement of the execute_query call at lines 290-298 (222 characters).
Q7_18E ==
  <<
    "\n",
    " ", " ", " ", " ", " ", " ", " ", " ", " ", " ", " ", " ", "S", "E", "L", "E", "C", "T", " ", "s", "1", ".", "s", "u", "p", "n", "a", "m", "e", ",", " ", "s", "1", ".", "s", "u", "p", "n", "r", "\n",
    " ", " ", " ", " ", " ", " ", " ", " ", " ", " ", " ", " ", "F", "R", "O", "M", " ", "s", "u", "p", "p", "l", "i", "e", "r", " ", "s", "1", "\n",
    " ", " ", " ", " ", " ", " ", " ", " ", " ", " ", " ", " ", "W", "H", "E", "R", "E", " ", "N", "O", "T", " ", "E", "X", "I", "S", "T", "S", "(", "\n",
    " ", " ", " ", " ", " ", " ", " ", " ", " ", " ", " ", " ", " ", " ", " ", " ", "S", "E", "L", "E", "C", "T", " ", "1", "\n",
    " ", " ", " ", " ", " ", " ", " ", " ", " ", " ", " ", " ", " ", " ", " ", " ", "F", "R", "O", "M", " ", "s", "u", "p", "p", "l", "i", "e", "r", " ", "s", "2", "\n",
    " ", " ", " ", " ", " ", " ", " ", " ", " ", " ", " ", " ", " ", " ", " ", " ", "W", "H", "E", "R", "E", " ", "s", "2", ".", "s", "u", "p", "n", "r", " ", "<", " ", "s", "1", ".", "s", "u", "p", "n", "r", "\n",
    " ", " ", " ", " ", " ", " ", " ", " ", " ", " ", " ", " ", ")", "\n",
    " ", " ", " ", " ", " ", " ", " ", " " >>

-----------------------------------------------------------------------------
(* The main block's data. *)

DriverQueries ==
  << Q7_9E, Q7_11E, Q7_12E, Q7_13E, Q7_14E, Q7_15E, Q7_16E, Q7_17E, Q7_18E >>

NumQueries ==
  Len(DriverQueries)

\* The second line of each banner.
Banners ==
  << "//////////// Question 7.9E  ////",
     "//////////// Question 7.11E ////",
     "//////////// Question 7.12E ////",
     "//////////// Question 7.13E ////",
     "//////////// Question 7.14E ////",
     "//////////// Question 7.15E ////",
     "//////////// Question 7.16E ////",
     "//////////// Question 7.17E ////",
     "//////////// Question 7.18E ////" >>

Slashes ==
  Lit("////////////////////////////////")

Banner(i) ==
  << Slashes, Lit(Banners[i]), Slashes >>

-----------------------------------------------------------------------------
(* Exceptions: the class, as the traceback names it, and str(e). *)

NoException ==
  [cls |-> "", message |-> ""]

\* sys.exit(0)
SystemExit0 ==
  [cls |-> "SystemExit", message |-> "0"]

\* Exceptions that are not a psycopg2.Error, as a connect or a print can
\* raise them.
OtherExceptions ==
  {[cls |-> "RuntimeError", message |-> "boom"],
   [cls |-> "ValueError", message |-> ""],
   [cls |-> "UnicodeEncodeError",
    message |-> "'ascii' codec can't encode character '\\x78' in position 0: console cannot encode"]}

\* raise of an exception that is not a psycopg2.Error
RaiseOther ==
  /\ exc' = "Exception"
  /\ excInfo' \in OtherExceptions

-----------------------------------------------------------------------------
(* Initial state: nothing constructed, nothing printed. *)

TypeOK ==
  /\ connection \in {"None", "open", "closed"}
  /\ qe \in BOOLEAN
  /\ cursors \in Nat
  /\ cursorResult \in ResultSets
  /\ exc \in {"none", "SystemExit", "Exception"}
  /\ excInfo \in {NoException, SystemExit0} \cup OtherExceptions
  /\ exitCode \in {"running", "0", "1"}
  /\ closeCalls \in Nat
  /\ cleanup \in BOOLEAN
  /\ op \in {"none", "__init__", "execute", "execute_query", "close"}
  /\ mark \in 0..Len(out)
  /\ print_results \in BOOLEAN
  /\ schema_name \in SchemaNames
  /\ dbresult \in ResultSets

Start ==
  /\ connection = "None"
  /\ qe = FALSE
  /\ cursors = 0
  /\ cursorResult = NoDescription
  /\ out = <<>>
  /\ err = <<>>
  /\ exc = "none"
  /\ excInfo = NoException
  /\ exitCode = "running"
  /\ sent = <<>>
  /\ closeCalls = 0
  /\ qi = 0
  /\ cleanup = FALSE
  /\ op = "none"
  /\ mark = 0
  /\ calls = 0
  /\ print_results = TRUE
  /\ dbresult \in ResultSets

\* The script run as a program.
Init ==
  /\ Start
  /\ pc = "main"
  /\ query = <<>>
  /\ schema_name = "wine"

\* print(...) of the given lines.
Stdout(lines) ==
  out' = out \o lines

\* traceback.print_exc() of an exception of class e.
Traceback(e) ==
  err' = Append(err, e)

-----------------------------------------------------------------------------
(* QueryExecutor.__init__ and _initialize. *)

\* A constructor whose first print is in a finally clause of the connect.
initialize_connect_always_prints ==
  /\ pc = "init_connect"
  /\ Stdout(<<ConnectedLine>>)
  /\ \/ /\ connection' = "open"
        /\ pc' = "init_cursor"
        /\ UNCHANGED <<exc, excInfo>>
     \/ /\ pc' = "fatal"
        /\ UNCHANGED <<connection, exc, excInfo>>
     \/ /\ RaiseOther
        /\ pc' = "raised"
        /\ UNCHANGED connection
  /\ UNCHANGED <<qe, cursors, cursorResult, err, exitCode, sent, closeCalls, qi, cleanup,
                 op, mark, calls, query, print_results, schema_name, dbresult>>

\* psycopg2.connect(...), autocommit, and the first print.  A psycopg2.Error
\* goes to _handle_sql_exception; any other exception leaves the constructor.
initialize_connect ==
  /\ pc = "init_connect"
  /\ \/ /\ connection' = "open"
        /\ Stdout(<<ConnectedLine>>)
        /\ pc' = "init_cursor"
        /\ UNCHANGED <<exc, excInfo>>
     \/ /\ pc' = "fatal"
        /\ UNCHANGED <<connection, out, exc, excInfo>>
     \/ /\ RaiseOther
        /\ pc' = "raised"
        /\ UNCHANGED <<connection, out>>
  /\ UNCHANGED <<qe, cursors, cursorResult, err, exitCode, sent, closeCalls, qi, cleanup,
                 op, mark, calls, query, print_results, schema_name, dbresult>>

\* with self.connection.cursor() as cursor:
initialize_cursor ==
  /\ pc = "init_cursor"
  /\ cursors' = cursors + 1
  /\ pc' = "init_execute"
  /\ UNCHANGED <<connection, qe, cursorResult, out, err, exc, excInfo, exitCode, sent, closeCalls,
                 qi, cleanup, op, mark, calls, query, print_results, schema_name, dbresult>>

\* cursor.execute("SET search_path TO ..."): on a psycopg2.Error the with
\* block closes the cursor and the handler runs.
initialize_execute ==
  /\ pc = "init_execute"
  /\ sent' = Append(sent, SetSearchPath(schema_name))
  /\ \/ /\ cursorResult' = NoDescription
        /\ pc' = "init_exit"
        /\ UNCHANGED cursors
     \/ /\ cursors' = cursors - 1
        /\ pc' = "fatal"
        /\ UNCHANGED cursorResult
  /\ UNCHANGED <<connection, qe, out, err, exc, excInfo, exitCode, closeCalls, qi, cleanup, op,
                 mark, calls, query, print_results, schema_name, dbresult>>

\* The with block ends, then print(f"Using schema '{...}'.\n").
initialize_exit ==
  /\ pc = "init_exit"
  /\ cursors' = cursors - 1
  /\ Stdout(<<SchemaLine(schema_name), Blank>>)
  /\ pc' = "constructed"
  /\ UNCHANGED <<connection, qe, cursorResult, err, exc, excInfo, exitCode, sent, closeCalls, qi,
                 cleanup, op, mark, calls, query, print_results, schema_name, dbresult>>

\* qe = QueryExecutor(...): the caller's variable is bound once __init__ returns.
assign_qe ==
  /\ pc = "constructed"
  /\ qe' = TRUE
  /\ pc' = "returned"
  /\ UNCHANGED <<connection, cursors, cursorResult, out, err, exc, excInfo, exitCode, sent,
                 closeCalls, qi, cleanup, op, mark, calls, query, print_results,
                 schema_name, dbresult>>

-----------------------------------------------------------------------------
(* _handle_sql_exception, and an exception leaving a with block. *)

\* A handler that reports and returns to the caller of the method.
handle_sql_exception_returns ==
  /\ pc = "fatal"
  /\ Traceback("psycopg2.Error")
  /\ Stdout(<<Blank, ExitingLine>>)
  /\ cursors' = 0
  /\ pc' = "returned"
  /\ UNCHANGED <<connection, qe, cursorResult, exc, excInfo, exitCode, sent, closeCalls, qi, cleanup,
                 op, mark, calls, query, print_results, schema_name, dbresult>>

\* traceback.print_exc(); print("\nExiting due to SQL error."); sys.exit(0),
\* which raises SystemExit.
handle_sql_exception ==
  /\ pc = "fatal"
  /\ Traceback("psycopg2.Error")
  /\ Stdout(<<Blank, ExitingLine>>)
  /\ exc' = "SystemExit"
  /\ excInfo' = SystemExit0
  /\ pc' = "unwind"
  /\ UNCHANGED <<connection, qe, cursors, cursorResult, exitCode, sent, closeCalls, qi,
                 cleanup, op, mark, calls, query, print_results, schema_name, dbresult>>

\* An exception that leaves the cursor of the call open.
unwind_leaves_cursor ==
  /\ pc = "unwind"
  /\ pc' = "raised"
  /\ UNCHANGED <<connection, qe, cursors, cursorResult, out, err, exc, excInfo, exitCode, sent,
                 closeCalls, qi, cleanup, op, mark, calls, query, print_results,
                 schema_name, dbresult>>

\* The exception leaves the method; a with block it passes closes its cursor.
unwind ==
  /\ pc = "unwind"
  /\ cursors' = IF cursors > 0 THEN cursors - 1 ELSE 0
  /\ pc' = "raised"
  /\ UNCHANGED <<connection, qe, cursorResult, out, err, exc, excInfo, exitCode, sent, closeCalls,
                 qi, cleanup, op, mark, calls, query, print_results, schema_name, dbresult>>

-----------------------------------------------------------------------------
(* QueryExecutor.execute_query, with _print_execution_message and            *)
(* _print_result_set.                                                        *)

\* with self.connection.cursor() as cursor: a closed connection raises
\* psycopg2.InterfaceError.
execute_query_cursor ==
  /\ pc = "eq_cursor"
  /\ IF connection = "open"
       THEN cursors' = cursors + 1 /\ pc' = "eq_execute"
       ELSE cursors' = cursors /\ pc' = "fatal"
  /\ UNCHANGED <<connection, qe, cursorResult, out, err, exc, excInfo, exitCode, sent, closeCalls,
                 qi, cleanup, op, mark, calls, query, print_results, schema_name, dbresult>>

\* cursor.execute(query)
execute_query_execute ==
  /\ pc = "eq_execute"
  /\ sent' = Append(sent, query)
  /\ \/ /\ cursorResult' = dbresult
        /\ pc' = "eq_message"
        /\ UNCHANGED cursors
     \/ /\ cursors' = cursors - 1
        /\ pc' = "fatal"
        /\ UNCHANGED cursorResult
  /\ UNCHANGED <<connection, qe, out, err, exc, excInfo, exitCode, closeCalls, qi, cleanup, op,
                 mark, calls, query, print_results, schema_name, dbresult>>

\* A call that renders the result set whatever print_results is.
execute_query_message_always_renders ==
  /\ pc = "eq_message"
  /\ \/ /\ Stdout(<<ExecLine(query)>>)
        /\ pc' = "eq_results"
        /\ UNCHANGED <<exc, excInfo>>
     \/ /\ RaiseOther
        /\ pc' = "unwind"
        /\ UNCHANGED out
  /\ UNCHANGED <<connection, qe, cursors, cursorResult, err, exitCode, sent, closeCalls,
                 qi, cleanup, op, mark, calls, query, print_results, schema_name, dbresult>>

\* self._print_execution_message(query), inside the with block; the print
\* may raise (an encoding error of the console, say).
execute_query_message ==
  /\ pc = "eq_message"
  /\ \/ /\ Stdout(<<ExecLine(query)>>)
        /\ pc' = IF print_results THEN "eq_results" ELSE "eq_exit"
        /\ UNCHANGED <<exc, excInfo>>
     \/ /\ RaiseOther
        /\ pc' = "unwind"
        /\ UNCHANGED out
  /\ UNCHANGED <<connection, qe, cursors, cursorResult, err, exitCode, sent, closeCalls,
                 qi, cleanup, op, mark, calls, query, print_results, schema_name, dbresult>>

\* The lines of the rows, as the loop over results prints them.
RowLines(rows) ==
  [i \in 1..Len(rows) |-> JoinedLine(MapStr(rows[i]))]

\* A rendering whose row count starts at one.
ResultSetLinesCountingHeader(res) ==
  IF ~res.described
    THEN <<ResultSetLine, NoResultsLine>>
    ELSE <<ResultSetLine, JoinedLine(res.columns)>> \o RowLines(res.rows)
         \o <<CountLine(Len(res.rows) + 1)>>

\* What _print_result_set prints for a cursor when nothing fails.
ResultSetLines(res) ==
  IF ~res.described
    THEN <<ResultSetLine, NoResultsLine>>
    ELSE <<ResultSetLine, JoinedLine(res.columns)>> \o RowLines(res.rows)
         \o <<CountLine(Len(res.rows))>>

\* self._print_result_set(cursor): all of it; or fetchall raises a
\* psycopg2.Error after the header; or printing stops with another exception
\* after k rows.
execute_query_results ==
  /\ pc = "eq_results"
  /\ \/ /\ Stdout(ResultSetLines(cursorResult))
        /\ pc' = "eq_exit"
        /\ UNCHANGED <<exc, excInfo>>
     \/ /\ cursorResult.described
        /\ Stdout(<<ResultSetLine, JoinedLine(cursorResult.columns)>>)
        /\ pc' = "fatal"
        /\ UNCHANGED <<exc, excInfo>>
     \/ /\ cursorResult.described
        /\ \E k \in 0..Len(cursorResult.rows) :
             Stdout(<<ResultSetLine, JoinedLine(cursorResult.columns)>>
                    \o SubSeq(RowLines(cursorResult.rows), 1, k))
        /\ RaiseOther
        /\ pc' = "unwind"
  /\ UNCHANGED <<connection, qe, cursors, cursorResult, err, exitCode, sent, closeCalls,
                 qi, cleanup, op, mark, calls, query, print_results, schema_name, dbresult>>

\* The with block ends: the cursor is closed and the method returns.
execute_query_exit ==
  /\ pc = "eq_exit"
  /\ cursors' = cursors - 1
  /\ pc' = "returned"
  /\ UNCHANGED <<connection, qe, cursorResult, out, err, exc, excInfo, exitCode, sent, closeCalls,
                 qi, cleanup, op, mark, calls, query, print_results, schema_name, dbresult>>

-----------------------------------------------------------------------------
(* QueryExecutor.execute. *)

execute_cursor ==
  /\ pc = "ex_cursor"
  /\ IF connection = "open"
       THEN cursors' = cursors + 1 /\ pc' = "ex_execute"
       ELSE cursors' = cursors /\ pc' = "fatal"
  /\ UNCHANGED <<connection, qe, cursorResult, out, err, exc, excInfo, exitCode, sent, closeCalls,
                 qi, cleanup, op, mark, calls, query, print_results, schema_name, dbresult>>

\* An execute that prints the message whether or not the statement failed.
execute_execute_message_in_finally ==
  /\ pc = "ex_execute"
  /\ sent' = Append(sent, query)
  /\ cursors' = cursors - 1
  /\ \/ /\ cursorResult' = dbresult
        /\ pc' = "ex_message"
        /\ UNCHANGED out
     \/ /\ Stdout(<<ExecLine(query)>>)
        /\ pc' = "fatal"
        /\ UNCHANGED cursorResult
  /\ UNCHANGED <<connection, qe, err, exc, excInfo, exitCode, closeCalls, qi, cleanup, op, mark,
                 calls, query, print_results, schema_name, dbresult>>

\* cursor.execute(query), the last statement of the with block: the cursor is
\* closed on either outcome.
execute_execute ==
  /\ pc = "ex_execute"
  /\ sent' = Append(sent, query)
  /\ cursors' = cursors - 1
  /\ \/ /\ cursorResult' = dbresult
        /\ pc' = "ex_message"
     \/ /\ pc' = "fatal"
        /\ UNCHANGED cursorResult
  /\ UNCHANGED <<connection, qe, out, err, exc, excInfo, exitCode, closeCalls, qi, cleanup, op,
                 mark, calls, query, print_results, schema_name, dbresult>>

\* self._print_execution_message(query), after the with block.
execute_message ==
  /\ pc = "ex_message"
  /\ \/ /\ Stdout(<<ExecLine(query)>>)
        /\ pc' = "returned"
        /\ UNCHANGED <<exc, excInfo>>
     \/ /\ RaiseOther
        /\ pc' = "raised"
        /\ UNCHANGED out
  /\ UNCHANGED <<connection, qe, cursors, cursorResult, err, exitCode, sent, closeCalls,
                 qi, cleanup, op, mark, calls, query, print_results, schema_name, dbresult>>

-----------------------------------------------------------------------------
(* QueryExecutor.close. *)

\* if self.connection: the connection object is truthy, open or closed;
\* closing a closed psycopg2 connection does nothing and does not raise.
close ==
  /\ pc = "close"
  /\ IF connection # "None"
       THEN /\ connection' = "closed"
            /\ closeCalls' = closeCalls + 1
            /\ Stdout(<<ClosedLine>>)
       ELSE UNCHANGED <<connection, closeCalls, out>>
  /\ pc' = "returned"
  /\ UNCHANGED <<qe, cursors, cursorResult, err, exc, excInfo, exitCode, sent, qi, cleanup, op,
                 mark, calls, query, print_results, schema_name, dbresult>>

-----------------------------------------------------------------------------
(* The main block of the script. *)

\* The exit status of the process for the exception that ends it:
\* sys.exit(0) and a normal end give 0, an uncaught exception gives 1.
ExitStatus(e) ==
  IF e = "Exception" THEN "1" ELSE "0"

\* qe = None; try: QueryExecutor(dbname=DB_NAME, schema_name="wine")
main_construct ==
  /\ pc = "main"
  /\ op' = "__init__"
  /\ mark' = Len(out)
  /\ pc' = "init_connect"
  /\ UNCHANGED <<connection, qe, cursors, cursorResult, out, err, exc, excInfo, exitCode, sent,
                 closeCalls, qi, cleanup, calls, query, print_results, schema_name,
                 dbresult>>

\* The three banner prints and the call qe.execute_query("""...""") of the
\* next question.
main_query ==
  /\ pc = "returned"
  /\ ~cleanup
  /\ qi < NumQueries
  /\ qi' = qi + 1
  /\ Stdout(Banner(qi + 1))
  /\ op' = "execute_query"
  /\ mark' = Len(out')
  /\ query' = DriverQueries[qi + 1]
  /\ print_results' = TRUE
  /\ pc' = "eq_cursor"
  /\ UNCHANGED <<connection, qe, cursors, cursorResult, err, exc, excInfo, exitCode, sent,
                 closeCalls, cleanup, calls, schema_name, dbresult>>

\* An except clause that catches SystemExit too.
main_except_base_exception ==
  /\ pc = "raised"
  /\ ~cleanup
  /\ exc # "none"
  /\ Stdout(<<UnexpectedLine(excInfo.message)>>)
  /\ exc' = "none"
  /\ pc' = "except_traceback"
  /\ UNCHANGED <<connection, qe, cursors, cursorResult, err, excInfo, exitCode, sent,
                 closeCalls, qi, cleanup, op, mark, calls, query, print_results,
                 schema_name, dbresult>>

\* except Exception as e: print(f"An unexpected error occurred: {e}").
\* SystemExit is not an Exception and passes.
main_except ==
  /\ pc = "raised"
  /\ ~cleanup
  /\ exc = "Exception"
  /\ Stdout(<<UnexpectedLine(excInfo.message)>>)
  /\ exc' = "none"
  /\ pc' = "except_traceback"
  /\ UNCHANGED <<connection, qe, cursors, cursorResult, err, excInfo, exitCode, sent,
                 closeCalls, qi, cleanup, op, mark, calls, query, print_results,
                 schema_name, dbresult>>

\* traceback.print_exc(), the second statement of the except clause.
main_except_traceback ==
  /\ pc = "except_traceback"
  /\ Traceback(excInfo.cls)
  /\ pc' = "finally"
  /\ UNCHANGED <<connection, qe, cursors, cursorResult, out, exc, excInfo, exitCode, sent,
                 closeCalls, qi, cleanup, op, mark, calls, query, print_results,
                 schema_name, dbresult>>

\* A finally clause that a SystemExit does not run.
main_finally_skipped_by_exit ==
  /\ ~cleanup
  /\ \/ pc = "finally"
     \/ pc = "raised" /\ exc = "SystemExit"
     \/ pc = "returned" /\ qi = NumQueries
  /\ cleanup' = TRUE
  /\ IF qe /\ exc # "SystemExit"
       THEN op' = "close" /\ mark' = Len(out) /\ pc' = "close"
       ELSE UNCHANGED <<op, mark>> /\ pc' = "end"
  /\ UNCHANGED <<connection, qe, cursors, cursorResult, out, err, exc, excInfo, exitCode, sent,
                 closeCalls, qi, calls, query, print_results, schema_name, dbresult>>

\* finally: if qe: qe.close().  Reached at the end of the try block, after
\* the except clause, and by a SystemExit on its way out.
main_finally ==
  /\ ~cleanup
  /\ \/ pc = "finally"
     \/ pc = "raised" /\ exc = "SystemExit"
     \/ pc = "returned" /\ qi = NumQueries
  /\ cleanup' = TRUE
  /\ IF qe
       THEN op' = "close" /\ mark' = Len(out) /\ pc' = "close"
       ELSE UNCHANGED <<op, mark>> /\ pc' = "end"
  /\ UNCHANGED <<connection, qe, cursors, cursorResult, out, err, exc, excInfo, exitCode, sent,
                 closeCalls, qi, calls, query, print_results, schema_name, dbresult>>

\* The script ends, or the SystemExit reaches the interpreter.
main_end ==
  /\ cleanup
  /\ pc \in {"end", "returned"}
  /\ exitCode' = ExitStatus(exc)
  /\ pc' = "done"
  /\ UNCHANGED <<connection, qe, cursors, cursorResult, out, err, exc, excInfo, sent, closeCalls,
                 qi, cleanup, op, mark, calls, query, print_results, schema_name, dbresult>>

Next ==
  \/ main_construct
  \/ initialize_connect
  \/ initialize_cursor
  \/ initialize_execute
  \/ initialize_exit
  \/ assign_qe
  \/ main_query
  \/ execute_query_cursor
  \/ execute_query_execute
  \/ execute_query_message
  \/ execute_query_results
  \/ execute_query_exit
  \/ handle_sql_exception
  \/ unwind
  \/ main_except
  \/ main_except_traceback
  \/ main_finally
  \/ close
  \/ main_end

Spec ==
  Init /\ [][Next]_vars

-----------------------------------------------------------------------------
(* A client of the class: it constructs one executor and calls its methods   *)
(* in any order, at most MaxCalls times; it catches nothing.                 *)

\* Statements a client sends.
ClientQueries ==
  {<<"S", "E", "T", " ", "x">>, Q7_11E}

InitAPI ==
  /\ Start
  /\ pc = "client"
  /\ query = <<>>
  /\ schema_name \in SchemaNames

\* qe = QueryExecutor(dbname, schema_name)
client_construct ==
  /\ pc = "client"
  /\ op' = "__init__"
  /\ mark' = Len(out)
  /\ pc' = "init_connect"
  /\ UNCHANGED <<connection, qe, cursors, cursorResult, out, err, exc, excInfo, exitCode, sent,
                 closeCalls, qi, cleanup, calls, query, print_results, schema_name,
                 dbresult>>

\* qe.execute_query(q, f)
client_execute_query ==
  /\ pc = "returned"
  /\ calls < MaxCalls
  /\ calls' = calls + 1
  /\ \E q \in ClientQueries, f \in BOOLEAN :
       /\ query' = q
       /\ print_results' = f
  /\ op' = "execute_query"
  /\ mark' = Len(out)
  /\ pc' = "eq_cursor"
  /\ UNCHANGED <<connection, qe, cursors, cursorResult, out, err, exc, excInfo, exitCode, sent,
                 closeCalls, qi, cleanup, schema_name, dbresult>>

\* qe.execute(q)
client_execute ==
  /\ pc = "returned"
  /\ calls < MaxCalls
  /\ calls' = calls + 1
  /\ \E q \in ClientQueries : query' = q
  /\ op' = "execute"
  /\ mark' = Len(out)
  /\ pc' = "ex_cursor"
  /\ UNCHANGED <<connection, qe, cursors, cursorResult, out, err, exc, excInfo, exitCode, sent,
                 closeCalls, qi, cleanup, print_results, schema_name, dbresult>>

\* qe.close()
client_close ==
  /\ pc = "returned"
  /\ calls < MaxCalls
  /\ calls' = calls + 1
  /\ op' = "close"
  /\ mark' = Len(out)
  /\ pc' = "close"
  /\ UNCHANGED <<connection, qe, cursors, cursorResult, out, err, exc, excInfo, exitCode, sent,
                 closeCalls, qi, cleanup, query, print_results, schema_name, dbresult>>

\* The client ends, or an exception it does not catch ends it.
client_end ==
  /\ pc \in {"returned", "raised"}
  /\ exitCode' = ExitStatus(exc)
  /\ pc' = "done"
  /\ UNCHANGED <<connection, qe, cursors, cursorResult, out, err, exc, excInfo, sent, closeCalls,
                 qi, cleanup, op, mark, calls, query, print_results, schema_name, dbresult>>

NextAPI ==
  \/ client_construct
  \/ initialize_connect
  \/ initialize_cursor
  \/ initialize_execute
  \/ initialize_exit
  \/ assign_qe
  \/ client_execute_query
  \/ client_execute
  \/ client_close
  \/ execute_query_cursor
  \/ execute_query_execute
  \/ execute_query_message
  \/ execute_query_results
  \/ execute_query_exit
  \/ execute_cursor
  \/ execute_execute
  \/ execute_message
  \/ handle_sql_exception
  \/ unwind
  \/ close
  \/ client_end

SpecAPI ==
  InitAPI /\ [][NextAPI]_vars

-----------------------------------------------------------------------------
(* _print_execution_message on its own, over a family of query texts: a     *)
(* varied head, a filler of one repeated character, a varied tail.  The      *)
(* filler lengths put the cut at MaxMsgLen inside, before and after the      *)
(* tail.                                                                     *)

Chars ==
  {"x", " ", "\n", "\t", "\r"}

Filler(c, n) ==
  [i \in 1..n |-> c]

FillLens ==
  {0, MaxMsgLen - 3, MaxMsgLen - 2, MaxMsgLen - 1}

MsgQueries ==
  {h \o Filler(c, n) \o t :
     h \in SeqUpTo(Chars, MaxHead), t \in SeqUpTo(Chars, MaxTail),
     c \in {"x", " "}, n \in FillLens}

InitMsg ==
  /\ Start
  /\ pc = "message"
  /\ schema_name = "wine"
  /\ dbresult = NoDescription
  /\ query \in MsgQueries

print_execution_message ==
  /\ pc = "message"
  /\ Stdout(<<ExecLine(query)>>)
  /\ pc' = "done"
  /\ UNCHANGED <<connection, qe, cursors, cursorResult, err, exc, excInfo, exitCode, sent,
                 closeCalls, qi, cleanup, op, mark, calls, query, print_results,
                 schema_name, dbresult>>

NextMsg ==
  print_execution_message

SpecMsg ==
  InitMsg /\ [][NextMsg]_vars

-----------------------------------------------------------------------------
(* Observations the properties below are stated with. *)

Range(s) ==
  {s[i] : i \in DOMAIN s}

\* How many entries of s are the line l.
CountOf(l, s) ==
  Cardinality({i \in DOMAIN s : s[i] = l})

\* How many entries of s are execution messages.
NumExec(s) ==
  Cardinality({i \in DOMAIN s : s[i].kind = "exec"})

\* What the last call of a method has printed so far.
callOut ==
  SubSeq(out, mark + 1, Len(out))

\* _handle_sql_exception has printed its line.
ExitingPrinted ==
  ExitingLine \in Range(out)

\* A psycopg2.Error has been raised: the handler is about to run or has run.
DbError ==
  pc = "fatal" \/ "psycopg2.Error" \in Range(err)

-----------------------------------------------------------------------------
(* The main block (Spec). *)

\* A psycopg2.Error raised by one of the nine execute_query calls.
QueryDbError ==
  DbError /\ qi >= 1

\* C1: once a database error occurs while one of the nine statements runs,
\* "Exiting due to SQL error." is printed, the process ends with status 0, and
\* no later statement is sent, no later question is started and no later
\* execution message is printed.
C1_FatalErrorStopsTheSequence ==
  /\ [](QueryDbError /\ pc # "fatal" => ExitingPrinted)
  /\ [](QueryDbError /\ pc = "done" => exitCode = "0")
  /\ [][QueryDbError => sent' = sent /\ qi' = qi /\ NumExec(out') = NumExec(out)]_vars

\* The third statement failed and the process has ended.
C1_Witness ==
  /\ pc = "done"
  /\ QueryDbError
  /\ qi = 3
  /\ Len(sent) = 4
  /\ NumExec(out) = 2
  /\ exitCode = "0"

\* C2: in a run of the main block in which the constructor returned, the
\* connection is closed exactly once, by the last thing the run does, however
\* the run ends; it is never closed twice and not left open at the end.
C2_ClosedExactlyOnceAtTheEnd ==
  /\ closeCalls <= 1
  /\ closeCalls = 1 => qe /\ cleanup /\ pc \in {"returned", "done"}
  /\ pc = "done" /\ qe =>
       /\ closeCalls = 1
       /\ connection = "closed"
       /\ out[Len(out)] = ClosedLine

\* The run ended by a database error in a query, and the connection was closed.
C2_Witness ==
  /\ pc = "done"
  /\ qe
  /\ exc = "SystemExit"
  /\ closeCalls = 1
  /\ connection = "closed"

\* C8 as stated: once "Exiting due to SQL error." is printed nothing more
\* happens: no statement, no connection operation, no further line.
C8_NothingAfterExiting ==
  [][ExitingPrinted =>
       /\ out' = out
       /\ sent' = sent
       /\ connection' = connection
       /\ closeCalls' = closeCalls]_vars

\* C8, amended: once "Exiting due to SQL error." is printed no statement is
\* sent, no cursor is opened and no question is started; the one thing that
\* still happens, when the constructor had returned, is the finally clause
\* closing the connection once and printing "Database connection closed." as
\* the last line; the process then ends with status 0.
C8_OnlyCleanupAfterExiting ==
  /\ [][ExitingPrinted =>
          /\ sent' = sent
          /\ qi' = qi
          /\ cursors' <= cursors
          /\ \/ out' = out /\ connection' = connection /\ closeCalls' = closeCalls
             \/ /\ qe /\ pc = "close" /\ cleanup
                /\ out' = Append(out, ClosedLine)
                /\ connection = "open" /\ connection' = "closed"
                /\ closeCalls = 0 /\ closeCalls' = 1]_vars
  /\ [](ExitingPrinted /\ pc = "done" =>
          /\ exitCode = "0"
          /\ out[Len(out)] = IF qe THEN ClosedLine ELSE ExitingLine)

\* "Database connection closed." was printed after "Exiting due to SQL error.".
C8_Witness ==
  /\ pc = "done"
  /\ ExitingPrinted
  /\ out[Len(out)] = ClosedLine
  /\ out[Len(out) - 1] = ExitingLine

-----------------------------------------------------------------------------
(* The class under any client (SpecAPI). *)

\* The last call returned to its caller (which may have ended since).
Returned ==
  pc \in {"returned", "done"} /\ exc = "none"

\* C3 as stated: close() called any number of times never raises and prints
\* "Database connection closed." at most once in total.
C3_CloseIsIdempotent ==
  /\ op = "close" => exc = "none"
  /\ CountOf(ClosedLine, out) <= 1

\* C4: a call of execute whose statement fails with a database error prints
\* no execution message, only the output of _handle_sql_exception; a call
\* whose statement succeeds prints exactly one execution message, and not
\* before the statement has run.
C4_ExecuteMessageOnlyOnSuccess ==
  op = "execute" =>
    /\ pc \in {"ex_cursor", "ex_execute"} => callOut = <<>>
    /\ DbError =>
         /\ NumExec(callOut) = 0
         /\ callOut = IF pc = "fatal" THEN <<>> ELSE <<Blank, ExitingLine>>
    /\ Returned =>
         /\ Len(callOut) = 1
         /\ callOut[1].kind = "exec"
         /\ callOut[1].text = ExecutionMessage(query)
         /\ sent[Len(sent)] = query

\* A statement given to execute failed, and the process has ended.
C4_Witness ==
  /\ op = "execute"
  /\ pc = "done"
  /\ "psycopg2.Error" \in Range(err)
  /\ connection = "open"
  /\ sent[Len(sent)] = query
  /\ callOut = <<Blank, ExitingLine>>

\* C5: a call of execute_query that succeeds prints the execution message
\* exactly once, after the statement has completed and before every line of
\* the result table, whatever print_results is; "Result set:" is printed if
\* and only if print_results is true.
C5_MessageOnceThenResults ==
  op = "execute_query" =>
    /\ pc \in {"eq_cursor", "eq_execute", "eq_message"} => callOut = <<>>
    /\ pc \in {"eq_results", "eq_exit"} => callOut # <<>> /\ callOut[1].kind = "exec"
    /\ Returned =>
         /\ callOut # <<>>
         /\ callOut[1].kind = "exec"
         /\ callOut[1].text = ExecutionMessage(query)
         /\ NumExec(callOut) = 1
         /\ sent[Len(sent)] = query
         /\ (ResultSetLine \in Range(callOut)) <=> print_results
         /\ ~print_results => Len(callOut) = 1

\* execute_query(query, False) returned although the cursor held two rows.
C5_Witness ==
  /\ op = "execute_query"
  /\ pc = "returned"
  /\ exc = "none"
  /\ ~print_results
  /\ cursorResult.described
  /\ Len(cursorResult.rows) = 2
  /\ NumExec(callOut) = 1

\* The items with " | " between neighbours.
Separated(items) ==
  [i \in 1..(IF items = <<>> THEN 0 ELSE 2 * Len(items) - 1) |->
     IF i % 2 = 1 THEN items[(i + 1) \div 2] ELSE " | "]

\* The lines of s that carry " | "-joined fields: the header and the rows.
NumJoined(s) ==
  Cardinality({i \in DOMAIN s : s[i].kind = "joined"})

\* C6: for a cursor with a description the rendering is "Result set:", one
\* header line, one line per row in the order the database returned them, and
\* "Number of rows: N" with N the number of row lines; for a cursor without
\* one it is "Result set:" and "(No results to display)", with no count line.
C6_RenderingOfTheResultSet ==
  op = "execute_query" /\ print_results /\ (pc = "eq_exit" \/ Returned) =>
    LET r == cursorResult
        t == Tail(callOut)
    IN  IF r.described
          THEN /\ Len(t) = Len(r.rows) + 3
               /\ t[1] = ResultSetLine
               /\ t[2].kind = "joined" /\ t[2].text = Separated(r.columns)
               /\ \A i \in 1..Len(r.rows) :
                    /\ t[2 + i].kind = "joined"
                    /\ t[2 + i].text = Separated([j \in 1..Len(r.rows[i]) |-> str(r.rows[i][j])])
               /\ t[Len(t)].kind = "count"
               /\ t[Len(t)].n = NumJoined(t) - 1
               /\ t[Len(t)].n = Len(r.rows)
          ELSE /\ t = <<ResultSetLine, NoResultsLine>>
               /\ \A i \in DOMAIN t : t[i].kind # "count"

\* Two different rows were rendered, the second-returned one last.
C6_Witness ==
  /\ op = "execute_query"
  /\ print_results
  /\ pc = "returned"
  /\ exc = "none"
  /\ cursorResult.described
  /\ Len(cursorResult.rows) = 2
  /\ cursorResult.rows[1] # cursorResult.rows[2]
  /\ cursorResult.rows[2][2] = PyNone
  /\ out[Len(out)] = CountLine(2)

\* C9: at most one cursor is open at any time, and when a call has returned,
\* or has ended in _handle_sql_exception or in another exception, no cursor is
\* open.
C9_CursorScopedToTheCall ==
  /\ cursors <= 1
  /\ pc \in {"client", "constructed", "returned", "raised", "close", "done"} => cursors = 0
  /\ cursors = 1 =>
       pc \in {"init_execute", "init_exit", "eq_execute", "eq_message", "eq_results",
               "eq_exit", "ex_execute", "fatal", "unwind"}

\* execute_query ended in an exception raised while the rows were printed.
C9_Witness ==
  /\ op = "execute_query"
  /\ pc = "raised"
  /\ exc = "Exception"
  /\ ResultSetLine \in Range(callOut)
  /\ cursors = 0

\* The constructor has failed: a psycopg2.Error or another exception left it.
ConstructionFailed ==
  op = "__init__" /\ (DbError \/ exc # "none")

\* C10: the connection goes from absent to open only in the constructor's
\* connect step and from open to closed only in close(), and never back; a
\* caller holds an executor only when both the connect and the search-path
\* statement succeeded;
\* "Successfully connected to Postgres." is not printed after a failed
\* connect nor "Using schema ..." after a failed search-path statement; and a
\* database error in any method ends the process with no further use of the
\* executor.
C10_TwoStatesOnly ==
  /\ [][connection # connection' =>
          \/ connection = "None" /\ connection' = "open" /\ pc = "init_connect"
          \/ connection = "open" /\ connection' = "closed" /\ pc = "close"]_vars
  /\ [](ConstructionFailed /\ connection = "None" => ConnectedLine \notin Range(out))
  /\ [](ConstructionFailed => SchemaLine(schema_name) \notin Range(out) /\ ~qe)
  /\ [](qe => /\ connection # "None"
              /\ ConnectedLine \in Range(out)
              /\ SchemaLine(schema_name) \in Range(out))
  /\ [](SchemaLine(schema_name) \in Range(out) =>
          connection # "None" /\ Len(sent) >= 1 /\ sent[1] = SetSearchPath(schema_name))
  /\ []("psycopg2.Error" \in Range(err) =>
          exc = "SystemExit" /\ pc \in {"unwind", "raised", "done"})
  /\ [][DbError => connection' = connection /\ sent' = sent /\ calls' = calls /\ qe' = qe]_vars
  /\ [](DbError /\ pc = "done" => exitCode = "0")

\* The search-path statement failed on an open connection and the process
\* ended without "Using schema ...".
C10_Witness ==
  /\ pc = "done"
  /\ op = "__init__"
  /\ connection = "open"
  /\ "psycopg2.Error" \in Range(err)
  /\ out = <<ConnectedLine, Blank, ExitingLine>>
  /\ exitCode = "0"

-----------------------------------------------------------------------------
(* _print_execution_message (SpecMsg). *)

\* The whitespace-collapsed form of s: each maximal run of whitespace is one
\* space.
Collapsed(s) ==
  LET G[i \in 1..Len(s) + 1] ==
        IF i > Len(s) THEN <<>>
        ELSE IF s[i] \notin Whitespace THEN <<s[i]>> \o G[i + 1]
        ELSE IF i < Len(s) /\ s[i + 1] \in Whitespace THEN G[i + 1]
        ELSE <<" ">> \o G[i + 1]
  IN  G[1]

\* s without leading whitespace.
LeftTrimmed(s) ==
  IF s # <<>> /\ s[1] \in Whitespace THEN Tail(s) ELSE s

\* s without trailing whitespace.
RightTrimmed(s) ==
  IF s # <<>> /\ s[Len(s)] \in Whitespace THEN SubSeq(s, 1, Len(s) - 1) ELSE s

\* The printed message is pre followed by "...".
MessageIs(pre) ==
  /\ Len(out) = 1
  /\ out[1].kind = "exec"
  /\ out[1].text = pre \o Ellipsis

\* C7 as stated: for a query text longer than 55 characters the message is
\* the whitespace-collapsed form of the first 55 characters followed by "...",
\* whether or not that form is understood as trimmed.
C7_CollapsedPrefixThenEllipsis ==
  pc = "done" /\ Len(query) > MaxMsgLen =>
    \/ MessageIs(Collapsed(Take(query, MaxMsgLen)))
    \/ MessageIs(RightTrimmed(LeftTrimmed(Collapsed(Take(query, MaxMsgLen)))))

\* C7, amended: for a query text longer than 55 characters the message is the
\* whitespace-collapsed form of the first 55 characters without its leading
\* space, followed by "..."; a space at the end of that form is kept.
C7_LeftTrimmedCollapsedPrefixThenEllipsis ==
  pc = "done" /\ Len(query) > MaxMsgLen =>
    MessageIs(LeftTrimmed(Collapsed(Take(query, MaxMsgLen))))

\* A text longer than 55 characters that begins with whitespace and has
\* whitespace at the cut.
C7_Witness ==
  /\ pc = "done"
  /\ Len(query) > MaxMsgLen
  /\ query[1] \in Whitespace
  /\ query[MaxMsgLen] \in Whitespace
  /\ query[MaxMsgLen - 1] \notin Whitespace
  /\ out[1].text[Len(out[1].text) - 3] = " "

=============================================================================
